---- MODULE Spec2Model ----
(***************************************************************************)
(* Model of the backtest engine (src/backtesting.py), the strategies       *)
(* (src/strategy/*.py, src/kdj.py, src/macd.py) and the performance        *)
(* metrics (src/metrics.py).                                               *)
(*                                                                         *)
(* Numbers: Python floats are modelled as exact rationals.  Money amounts  *)
(* (cash, prices, valuations) are integers; returns and metric values are  *)
(* normalised fractions <<n, d>> with d > 0, and <<0, 0>> is NaN.          *)
(***************************************************************************)
EXTENDS Integers, Sequences, FiniteSets, TLC

VARIABLES
    pc,                     \* "loop" | "done" | "raised": position in backtest_strategy
    strategy,               \* which IStrategy the run was started with
    first_trade,            \* BuyAndHoldStrategy._first_trade
    trading_days,           \* the Monday-to-Friday dates of the range, ascending
    idx,                    \* index in trading_days of the next period of the for loop
    cash,
    position,
    portfolio_value,
    portfolio_values,
    stock_prices,
    dates,
    daily_returns,
    market_returns,
    previous_value,
    previous_market_price,  \* <<>> is None, <<p>> is the price p
    decision,               \* the decision last returned by generate_signal
    errors,                 \* the dates printed by the except branch, in order
    call                    \* the last call of a metrics function: arguments and result

vars == <<pc, strategy, first_trade, trading_days, idx, cash, position,
          portfolio_value, portfolio_values, stock_prices, dates,
          daily_returns, market_returns, previous_value,
          previous_market_price, decision, errors, call>>

\* ---------------------------------------------------------------- bounds
NumDays == 3        \* calendar days in the date range of a run
MaxQty  == 2        \* largest quantity an arbitrary strategy asks for
MaxVals == 5        \* longest portfolio value series given to calculate_max_drawdown
MaxRets == 3        \* longest return series given to the return metrics
MaxWindow == 51     \* most bars in the lookback window of one strategy call
SMADays == 7        \* calendar days in the date range of a run with SMAStrategy

\* ------------------------------------------------------- program constants
initial_cash == 100000
TRADING_DAYS_PER_YEAR == 252

\* Close prices the data provider can report for a day.
Prices == {10000, 40000, 100000}

\* ------------------------------------------------------------- rationals
Abs(x) == IF x < 0 THEN -x ELSE x

RECURSIVE GCD(_, _)
GCD(a, b) == IF b = 0 THEN a ELSE GCD(b, a % b)

LCM(a, b) == (a \div GCD(a, b)) * b

NaN == <<0, 0>>
IsNaN(r) == r[1] = 0 /\ r[2] = 0

\* float('inf'): only ever returned, never computed with.
Inf == <<1, 0>>

\* The fraction n/d in lowest terms with a positive denominator; x/0 is NaN.
Rat(n, d) ==
    IF d = 0 THEN NaN
    ELSE LET g == GCD(Abs(n), Abs(d))
             s == IF d < 0 THEN -1 ELSE 1
         IN  <<s * (n \div g), s * (d \div g)>>

RInt(n) == <<n, 1>>

RAdd(x, y) ==
    IF IsNaN(x) \/ IsNaN(y) THEN NaN
    ELSE LET l == LCM(x[2], y[2])
         IN  Rat(x[1] * (l \div x[2]) + y[1] * (l \div y[2]), l)

RNeg(x) == IF IsNaN(x) THEN NaN ELSE <<-x[1], x[2]>>

RSub(x, y) == RAdd(x, RNeg(y))

RMul(x, y) ==
    IF IsNaN(x) \/ IsNaN(y) THEN NaN
    ELSE LET g1 == GCD(Abs(x[1]), y[2])
             g2 == GCD(Abs(y[1]), x[2])
         IN  Rat((x[1] \div g1) * (y[1] \div g2), (x[2] \div g2) * (y[2] \div g1))

\* x / y in floating point terms: a zero divisor gives NaN here (0/0); the
\* callers below test the divisor before dividing a non-zero value by it.
RDiv(x, y) ==
    IF IsNaN(x) \/ IsNaN(y) \/ y[1] = 0 THEN NaN
    ELSE RMul(x, Rat(y[2], y[1]))

RLess(x, y) == x[1] * y[2] < y[1] * x[2]

RECURSIVE RSum(_)
RSum(s) == IF s = <<>> THEN RInt(0) ELSE RAdd(Head(s), RSum(Tail(s)))

\* Series.mean() / np.mean: NaN for an empty series.
Mean(s) == RDiv(RSum(s), RInt(Len(s)))

\* ------------------------------------------------------------ decisions
BUY  == "BUY"
SELL == "SELL"
HOLD == "HOLD"
MarketAction == {BUY, SELL, HOLD}

MarketDecision(a, p, q) == [action |-> a, price |-> p, quantity |-> q]

NoDecision == [action |-> "NONE", price |-> 0, quantity |-> 0]

\* What an arbitrary IStrategy can return on a day: any action, a close price
\* of the day, any share count from 0 to MaxQty.
Decisions == [action : MarketAction, price : Prices, quantity : 0..MaxQty]

\* A buy-and-hold that buys a single share on its first trade.
BuyAndHold_OneShare(ft, c, current_price) ==
    IF ft /\ c > current_price
    THEN [decision |-> MarketDecision(BUY, current_price, 1),
          first_trade |-> FALSE]
    ELSE [decision |-> MarketDecision(HOLD, current_price, 0),
          first_trade |-> ft]

\* A buy-and-hold that never clears _first_trade.
BuyAndHold_KeepsBuying(ft, c, current_price) ==
    LET max_shares == c \div current_price
    IN  IF ft /\ c > current_price /\ max_shares > 0
        THEN [decision |-> MarketDecision(BUY, current_price, max_shares),
              first_trade |-> ft]
        ELSE [decision |-> MarketDecision(HOLD, current_price, 0),
              first_trade |-> ft]

\* BuyAndHoldStrategy.generate_signal once the close price of the day is known:
\* the decision it returns and the value it leaves in _first_trade.
BuyAndHold_generate_signal(ft, c, current_price) ==
    LET max_shares == c \div current_price
    IN  IF ft /\ c > current_price /\ max_shares > 0
        THEN [decision |-> MarketDecision(BUY, current_price, max_shares),
              first_trade |-> FALSE]
        ELSE [decision |-> MarketDecision(HOLD, current_price, 0),
              first_trade |-> ft]

\* ------------------------------------------------------- backtest_strategy
\* Monday is 0; a date is a day number and its weekday is the number mod 7.
weekday(d) == d % 7

\* The filter of the date range letting Saturdays through.
TradingDays_WithSaturday(start) ==
    SelectSeq([i \in 1..NumDays |-> start + i - 1], LAMBDA d : weekday(d) < 6)

\* The dates of date_range that fall on Monday to Friday, ascending.
TradingDays(start) ==
    SelectSeq([i \in 1..NumDays |-> start + i - 1], LAMBDA d : weekday(d) < 5)

\* ApplyDecision without the engine's own affordability test on a BUY.
ApplyDecision_TrustBuy(c, p, d) ==
    IF d.action = BUY
    THEN [cash |-> c - d.price * d.quantity, position |-> p + d.quantity]
    ELSE IF d.action = SELL /\ p >= d.quantity
    THEN [cash |-> c + d.price * d.quantity, position |-> p - d.quantity]
    ELSE [cash |-> c, position |-> p]

\* ApplyDecision where a SELL only needs some position, not the full quantity.
ApplyDecision_SellAnyPosition(c, p, d) ==
    IF d.action = BUY /\ c >= d.price * d.quantity
    THEN [cash |-> c - d.price * d.quantity, position |-> p + d.quantity]
    ELSE IF d.action = SELL /\ p > 0
    THEN [cash |-> c + d.price * d.quantity, position |-> 0]
    ELSE [cash |-> c, position |-> p]

\* ApplyDecision where an applied BUY also costs a commission of 1.
ApplyDecision_Commission(c, p, d) ==
    IF d.action = BUY /\ c >= d.price * d.quantity + 1
    THEN [cash |-> c - d.price * d.quantity - 1, position |-> p + d.quantity]
    ELSE IF d.action = SELL /\ p >= d.quantity
    THEN [cash |-> c + d.price * d.quantity, position |-> p - d.quantity]
    ELSE [cash |-> c, position |-> p]

\* The portfolio after the engine has applied decision d to (c, p).
ApplyDecision(c, p, d) ==
    IF d.action = BUY /\ c >= d.price * d.quantity
    THEN [cash |-> c - d.price * d.quantity, position |-> p + d.quantity]
    ELSE IF d.action = SELL /\ p >= d.quantity
    THEN [cash |-> c + d.price * d.quantity, position |-> p - d.quantity]
    ELSE [cash |-> c, position |-> p]

\* Valuation that leaves the shares out.
Valuation_CashOnly(c, p, price) == c

\* The period valuation of the portfolio (c, p) at the decision price.
Valuation(c, p, price) == c + p * price

\* The return taken relative to the new value instead of the previous one.
Return_OverCurrent(current, previous) == Rat(current - previous, current)

\* The period return from the previous recorded figure to the current one.
Return(current, previous) == Rat(current - previous, previous)

NoCall == [fn |-> "none", a |-> <<>>, b |-> <<>>, rf |-> NaN, result |-> <<>>]

InitRun(s) ==
    /\ pc = "loop"
    /\ strategy = s
    /\ first_trade = TRUE
    /\ \E start \in 0..6 : trading_days = TradingDays(start)
    /\ idx = 1
    /\ cash = initial_cash
    /\ position = 0
    /\ portfolio_value = initial_cash
    /\ portfolio_values = <<>>
    /\ stock_prices = <<>>
    /\ dates = <<>>
    /\ daily_returns = <<>>
    /\ market_returns = <<>>
    /\ previous_value = initial_cash
    /\ previous_market_price = <<>>
    /\ decision = NoDecision
    /\ errors = <<>>
    /\ call = NoCall

Init == \E s \in {"any", "buy_and_hold"} : InitRun(s)

InLoop == pc = "loop" /\ idx <= Len(trading_days)

\* A loop body that records a return on the first recorded period too.
Process_ReturnEveryPeriod(d) ==
    LET single_date == trading_days[idx]
        after == ApplyDecision(cash, position, d)
        value == Valuation(after.cash, after.position, d.price)
    IN  /\ decision' = d
        /\ cash' = after.cash
        /\ position' = after.position
        /\ portfolio_value' = value
        /\ portfolio_values' = Append(portfolio_values, value)
        /\ stock_prices' = Append(stock_prices, d.price)
        /\ dates' = Append(dates, single_date)
        /\ market_returns' =
              Append(market_returns,
                     IF previous_market_price # <<>>
                     THEN Return(d.price, previous_market_price[1])
                     ELSE RInt(0))
        /\ daily_returns' = Append(daily_returns, Return(value, previous_value))
        /\ previous_value' = value
        /\ previous_market_price' = <<d.price>>
        /\ idx' = idx + 1
        /\ UNCHANGED <<pc, strategy, trading_days, errors, call>>

\* The rest of the loop body once generate_signal has returned d.  With the
\* positive prices and the quantities >= 0 drawn here the valuation and the
\* price are never 0, so neither division of lines 206 and 210 has a zero
\* divisor.
Process(d) ==
    LET single_date == trading_days[idx]
        after == ApplyDecision(cash, position, d)
        value == Valuation(after.cash, after.position, d.price)
        daily_return == Return(value, previous_value)
    IN  /\ decision' = d
        /\ cash' = after.cash
        /\ position' = after.position
        /\ portfolio_value' = value
        /\ portfolio_values' = Append(portfolio_values, value)
        /\ stock_prices' = Append(stock_prices, d.price)
        /\ dates' = Append(dates, single_date)
        /\ IF previous_market_price # <<>>
           THEN /\ market_returns' =
                      Append(market_returns,
                             Return(d.price, previous_market_price[1]))
                /\ daily_returns' = Append(daily_returns, daily_return)
           ELSE UNCHANGED <<market_returns, daily_returns>>
        /\ previous_value' = value
        /\ previous_market_price' = <<d.price>>
        /\ idx' = idx + 1
        /\ UNCHANGED <<pc, strategy, trading_days, errors, call>>

\* One period with an arbitrary strategy whose generate_signal returns.
PeriodAny ==
    /\ InLoop
    /\ strategy = "any"
    /\ \E d \in Decisions : Process(d)
    /\ UNCHANGED first_trade

\* One period with BuyAndHoldStrategy when the provider has a close price.
PeriodBuyAndHold ==
    /\ InLoop
    /\ strategy = "buy_and_hold"
    /\ \E current_price \in Prices :
         LET r == BuyAndHold_generate_signal(first_trade, cash, current_price)
         IN  /\ Process(r.decision)
             /\ first_trade' = r.first_trade

\* A failing period that still records the last valuation for the date.
PeriodRaises_Records ==
    /\ InLoop
    /\ errors' = Append(errors, trading_days[idx])
    /\ idx' = idx + 1
    /\ portfolio_values' = Append(portfolio_values, portfolio_value)
    /\ stock_prices' = Append(stock_prices, decision.price)
    /\ dates' = Append(dates, trading_days[idx])
    /\ UNCHANGED <<pc, strategy, first_trade, trading_days, cash, position,
                   portfolio_value, daily_returns, market_returns,
                   previous_value, previous_market_price, decision, call>>

\* One period in which generate_signal raises: the except branch prints the
\* date and the loop continues.
PeriodRaises ==
    /\ InLoop
    /\ errors' = Append(errors, trading_days[idx])
    /\ idx' = idx + 1
    /\ UNCHANGED <<pc, strategy, first_trade, trading_days, cash, position,
                   portfolio_value, portfolio_values, stock_prices, dates,
                   daily_returns, market_returns, previous_value,
                   previous_market_price, decision, call>>

\* After the loop: building the normalised frame reads the first row of the
\* recorded series, which raises IndexError when no period was recorded.
Finish ==
    /\ pc = "loop"
    /\ idx > Len(trading_days)
    /\ pc' = IF dates = <<>> THEN "raised" ELSE "done"
    /\ UNCHANGED <<strategy, first_trade, trading_days, idx, cash, position,
                   portfolio_value, portfolio_values, stock_prices, dates,
                   daily_returns, market_returns, previous_value,
                   previous_market_price, decision, errors, call>>

Next == PeriodAny \/ PeriodBuyAndHold \/ PeriodRaises \/ Finish

Spec == Init /\ [][Next]_vars

\* The run as it is scheduled: a single thread that takes its next step as
\* long as there is one.
SpecLive == Init /\ [][Next]_vars /\ WF_vars(Next)

\* ------------------------------------------- the loop without input limits
\* What a strategy outside the limits above can return: a close of 0 and a
\* quantity below 0 are possible, MarketDecision checks nothing.
UncheckedPrices == {0, 100000}
UncheckedDecisions ==
    [action : MarketAction, price : UncheckedPrices, quantity : -1..MaxQty]

\* (current - previous) / previous on numpy.float64: a zero divisor gives
\* nan for 0/0 and a signed inf otherwise, with a warning and no exception.
Float64Return(current, previous) ==
    IF previous # 0 THEN Return(current, previous)
    ELSE IF current = previous THEN NaN
    ELSE IF current > previous THEN Inf
    ELSE <<-1, 0>>

\* A run with a strategy whose prices are Python floats ("float") or
\* numpy.float64 ("float64").
InitUnchecked == \E s \in {"float", "float64"} : InitRun(s)

\* One period in which generate_signal returns any decision whatever.  With
\* Python floats a zero divisor at line 206 or line 210 raises
\* ZeroDivisionError after lines 192-203 have run, and the except branch
\* takes over; with numpy.float64 the quotient is inf or nan and the body
\* runs to its end.
PeriodUnchecked ==
    /\ InLoop
    /\ strategy \in {"float", "float64"}
    /\ \E d \in UncheckedDecisions :
         LET single_date == trading_days[idx]
             after == ApplyDecision(cash, position, d)
             value == Valuation(after.cash, after.position, d.price)
             zero_divisor == previous_value = 0 \/ previous_market_price = <<0>>
         IN  /\ decision' = d
             /\ cash' = after.cash
             /\ position' = after.position
             /\ portfolio_value' = value
             /\ portfolio_values' = Append(portfolio_values, value)
             /\ stock_prices' = Append(stock_prices, d.price)
             /\ dates' = Append(dates, single_date)
             /\ IF strategy = "float" /\ zero_divisor
                THEN /\ errors' = Append(errors, single_date)
                     /\ UNCHANGED <<market_returns, daily_returns,
                                    previous_value, previous_market_price>>
                ELSE /\ IF previous_market_price # <<>>
                        THEN /\ market_returns' =
                                   Append(market_returns,
                                          Float64Return(d.price,
                                                        previous_market_price[1]))
                             /\ daily_returns' =
                                   Append(daily_returns,
                                          Float64Return(value, previous_value))
                        ELSE UNCHANGED <<market_returns, daily_returns>>
                     /\ previous_value' = value
                     /\ previous_market_price' = <<d.price>>
                     /\ UNCHANGED errors
             /\ idx' = idx + 1
             /\ UNCHANGED <<pc, strategy, first_trade, trading_days, call>>

NextUnchecked == PeriodUnchecked \/ PeriodRaises \/ Finish

SpecUnchecked == InitUnchecked /\ [][NextUnchecked]_vars

\* ---------------------------------------------------------------- metrics
\* Return values and annual risk-free rates the metric functions are called with.
Returns == {Rat(-1, 10), RInt(0), Rat(1, 5)}
Rates   == {Rat(1, 50), RInt(0)}

\* Portfolio values calculate_max_drawdown is called with.
Values == {90, 95, 100, 120, 130}

SeqsUpTo(S, n) == UNION {[1..k -> S] : k \in 1..n}

RECURSIVE SumInts(_)
SumInts(s) == IF s = <<>> THEN 0 ELSE Head(s) + SumInts(Tail(s))

RECURSIVE LCMAll(_)
LCMAll(s) == IF s = <<>> THEN 1 ELSE LCM(Head(s)[2], LCMAll(Tail(s)))

\* The sum of squared deviations from the mean of a non-empty series, held
\* as ss / scale^2 with integer ss so that the squares stay small.
SumSqDev(xs) ==
    LET n == Len(xs)
        D == LCMAll(xs)
        a == [i \in 1..n |-> xs[i][1] * (D \div xs[i][2])]
        S == SumInts(a)
    IN  [ss |-> SumInts([i \in 1..n |-> (n * a[i] - S) * (n * a[i] - S)]),
         scale |-> n * D]

\* Series.std() squared: the sample variance (ddof = 1) as [nan, ss, dof,
\* scale] standing for (ss / dof) / scale^2; NaN for fewer than two entries.
SeriesVar(xs) ==
    IF Len(xs) < 2
    THEN [nan |-> TRUE, ss |-> 0, dof |-> 0, scale |-> 1]
    ELSE LET q == SumSqDev(xs)
         IN  [nan |-> FALSE, ss |-> q.ss, dof |-> Len(xs) - 1, scale |-> q.scale]

Sign(x) == IF x > 0 THEN 1 ELSE IF x < 0 THEN -1 ELSE 0

\* Results of calculate_sharpe_ratio: the literal 0, NaN, or
\* sqrt(252) * sign * sqrt(sq) where sq is (mean / std)^2.
SharpeZero == <<"zero", 0, RInt(0)>>
SharpeNaN == <<"nan", 0, NaN>>
SharpeValue(sign, sq) == <<"value", sign, sq>>

calculate_sharpe_ratio(returns, risk_free_rate) ==
    LET daily_rf == RDiv(risk_free_rate, RInt(TRADING_DAYS_PER_YEAR))
        excess_returns == [i \in 1..Len(returns) |-> RSub(returns[i], daily_rf)]
        var == SeriesVar(excess_returns)
        mean == Mean(excess_returns)
        m_scaled == RMul(mean, RInt(var.scale))
    IN  IF ~var.nan /\ var.ss = 0 THEN SharpeZero
        ELSE IF var.nan THEN SharpeNaN
        ELSE SharpeValue(Sign(mean[1]),
                         RMul(RMul(m_scaled, m_scaled), Rat(var.dof, var.ss)))

\* The scan of calculate_max_drawdown keeping the longest duration seen.
DrawdownStep_LongestDuration(st, i, value) ==
    IF value > st.peak
    THEN [st EXCEPT !.peak = value, !.peak_idx = i, !.current_dd_duration = 0]
    ELSE LET dur == i - st.peak_idx
             dd == Rat(st.peak - value, st.peak)
         IN  [st EXCEPT !.current_dd_duration = dur,
                        !.max_dd = IF RLess(st.max_dd, dd) THEN dd ELSE @,
                        !.max_dd_duration = IF dur > @ THEN dur ELSE @]

\* A scan step that breaks ties towards the latest index: a value equal to
\* the peak sets the peak anew, an equal drawdown replaces the recorded one.
DrawdownStep_LatestTie(st, i, value) ==
    IF value >= st.peak
    THEN [st EXCEPT !.peak = value, !.peak_idx = i, !.current_dd_duration = 0]
    ELSE LET dur == i - st.peak_idx
             dd == Rat(st.peak - value, st.peak)
         IN  IF ~RLess(dd, st.max_dd)
             THEN [st EXCEPT !.current_dd_duration = dur,
                             !.max_dd = dd,
                             !.max_dd_duration = dur]
             ELSE [st EXCEPT !.current_dd_duration = dur]

\* One iteration of the scan of calculate_max_drawdown; i counts from 0.
DrawdownStep(st, i, value) ==
    IF value > st.peak
    THEN [st EXCEPT !.peak = value, !.peak_idx = i, !.current_dd_duration = 0]
    ELSE LET dur == i - st.peak_idx
             dd == Rat(st.peak - value, st.peak)
         IN  IF RLess(st.max_dd, dd)
             THEN [st EXCEPT !.current_dd_duration = dur,
                             !.max_dd = dd,
                             !.max_dd_duration = dur]
             ELSE [st EXCEPT !.current_dd_duration = dur]

RECURSIVE DrawdownScan(_, _, _)
DrawdownScan(values, i, st) ==
    IF i >= Len(values) THEN st
    ELSE DrawdownScan(values, i + 1, DrawdownStep(st, i, values[i + 1]))

calculate_max_drawdown(values) ==
    LET st == DrawdownScan(values, 0,
                  [peak |-> values[1], max_dd |-> RInt(0), max_dd_duration |-> 0,
                   current_dd_duration |-> 0, peak_idx |-> 0])
    IN  <<st.max_dd, st.max_dd_duration>>

\* np.cov(x, y)[0][1]: the sample covariance (ddof = 1), NaN for one entry.
Cov(x, y) ==
    LET mx == Mean(x)
        my == Mean(y)
    IN  RDiv(RSum([i \in 1..Len(x) |-> RMul(RSub(x[i], mx), RSub(y[i], my))]),
             RInt(Len(x) - 1))

\* np.var(x): the population variance (ddof = 0).
Var(x) ==
    LET mx == Mean(x)
    IN  RDiv(RSum([i \in 1..Len(x) |-> RMul(RSub(x[i], mx), RSub(x[i], mx))]),
             RInt(Len(x)))

calculate_beta(strategy_returns, market_returns_) ==
    LET covariance == Cov(strategy_returns, market_returns_)
        market_variance == Var(market_returns_)
    IN  IF market_variance # RInt(0)
        THEN RDiv(covariance, market_variance)
        ELSE RInt(1)

\* calculate_alpha using the daily risk-free rate where the annual one belongs.
calculate_alpha_DailyRf(strategy_returns, market_returns_, risk_free_rate) ==
    LET daily_rf == RDiv(risk_free_rate, RInt(TRADING_DAYS_PER_YEAR))
        beta == calculate_beta(strategy_returns, market_returns_)
        strategy_return == RMul(Mean(strategy_returns), RInt(TRADING_DAYS_PER_YEAR))
        market_return == RMul(Mean(market_returns_), RInt(TRADING_DAYS_PER_YEAR))
    IN  RSub(strategy_return,
             RAdd(daily_rf, RMul(beta, RSub(market_return, daily_rf))))

calculate_alpha(strategy_returns, market_returns_, risk_free_rate) ==
    LET daily_rf == RDiv(risk_free_rate, RInt(TRADING_DAYS_PER_YEAR))
        beta == calculate_beta(strategy_returns, market_returns_)
        strategy_return == RMul(Mean(strategy_returns), RInt(TRADING_DAYS_PER_YEAR))
        market_return == RMul(Mean(market_returns_), RInt(TRADING_DAYS_PER_YEAR))
        rf_annual == RMul(daily_rf, RInt(TRADING_DAYS_PER_YEAR))
    IN  RSub(strategy_return,
             RAdd(rf_annual, RMul(beta, RSub(market_return, rf_annual))))

\* calculate_win_rate counting a zero return as a win.
calculate_win_rate_ZeroWins(returns) ==
    LET wins == Cardinality({i \in 1..Len(returns) : returns[i][1] >= 0})
        total == Len(returns)
    IN  IF total > 0 THEN Rat(wins, total) ELSE RInt(0)

calculate_win_rate(returns) ==
    LET wins == Cardinality({i \in 1..Len(returns) : returns[i][1] > 0})
        total == Len(returns)
    IN  IF total > 0 THEN Rat(wins, total) ELSE RInt(0)

RAbs(x) == <<Abs(x[1]), x[2]>>

\* calculate_profit_factor with the net sum of all returns as the gains.
calculate_profit_factor_NetGains(returns) ==
    LET gains == RSum(returns)
        losses == RAbs(RSum(SelectSeq(returns, LAMBDA r : r[1] < 0)))
    IN  IF losses # RInt(0) THEN RDiv(gains, losses) ELSE Inf

calculate_profit_factor(returns) ==
    LET gains == RSum(SelectSeq(returns, LAMBDA r : r[1] > 0))
        losses == RAbs(RSum(SelectSeq(returns, LAMBDA r : r[1] < 0)))
    IN  IF losses # RInt(0) THEN RDiv(gains, losses) ELSE Inf

\* The default annual risk-free rate of calculate_alpha, 0.02.
DefaultRiskFreeRate == Rat(1, 50)

\* The trimming of backtest_strategy taking the last entries of each series.
TrimToShorter_FromEnd(returns_series, market_returns_series) ==
    LET min_length == IF Len(returns_series) < Len(market_returns_series)
                      THEN Len(returns_series) ELSE Len(market_returns_series)
    IN  <<SubSeq(returns_series, Len(returns_series) - min_length + 1,
                 Len(returns_series)),
          SubSeq(market_returns_series,
                 Len(market_returns_series) - min_length + 1,
                 Len(market_returns_series))>>

\* The two return series as backtest_strategy hands them to the metrics:
\* when the lengths differ both are cut to the first min_length entries.
TrimToShorter(returns_series, market_returns_series) ==
    IF Len(returns_series) # Len(market_returns_series)
    THEN LET min_length == IF Len(returns_series) < Len(market_returns_series)
                           THEN Len(returns_series)
                           ELSE Len(market_returns_series)
         IN  <<SubSeq(returns_series, 1, min_length),
               SubSeq(market_returns_series, 1, min_length)>>
    ELSE <<returns_series, market_returns_series>>

\* The beta and alpha backtest_strategy reports for the two series.
ReportBetaAlpha(returns_series, market_returns_series) ==
    LET t == TrimToShorter(returns_series, market_returns_series)
    IN  <<calculate_beta(t[1], t[2]),
          calculate_alpha(t[1], t[2], DefaultRiskFreeRate)>>

\* A caller that holds series and applies one metric function to them.
InitMetrics ==
    /\ pc = "metrics"
    /\ strategy = "none"
    /\ first_trade = TRUE
    /\ trading_days = <<>>
    /\ idx = 1
    /\ cash = initial_cash
    /\ position = 0
    /\ portfolio_value = initial_cash
    /\ portfolio_values = <<>>
    /\ stock_prices = <<>>
    /\ dates = <<>>
    /\ daily_returns = <<>>
    /\ market_returns = <<>>
    /\ previous_value = initial_cash
    /\ previous_market_price = <<>>
    /\ decision = NoDecision
    /\ errors = <<>>
    /\ call = NoCall

Idle == pc = "metrics" /\ call = NoCall

Frame == UNCHANGED <<pc, strategy, first_trade, trading_days, idx, cash,
                     position, portfolio_value, portfolio_values, stock_prices,
                     dates, daily_returns, market_returns, previous_value,
                     previous_market_price, decision, errors>>

CallSharpeRatio ==
    /\ Idle
    /\ \E r \in SeqsUpTo(Returns, MaxRets), rf \in Rates :
         call' = [fn |-> "calculate_sharpe_ratio", a |-> r, b |-> <<>>,
                  rf |-> rf, result |-> calculate_sharpe_ratio(r, rf)]
    /\ Frame

CallMaxDrawdown ==
    /\ Idle
    /\ \E v \in SeqsUpTo(Values, MaxVals) :
         call' = [fn |-> "calculate_max_drawdown", a |-> v, b |-> <<>>,
                  rf |-> NaN, result |-> calculate_max_drawdown(v)]
    /\ Frame

CallBeta ==
    /\ Idle
    /\ \E n \in 1..MaxRets :
         \E s \in [1..n -> Returns], m \in [1..n -> Returns] :
            call' = [fn |-> "calculate_beta", a |-> s, b |-> m,
                     rf |-> NaN, result |-> calculate_beta(s, m)]
    /\ Frame

CallAlpha ==
    /\ Idle
    /\ \E n \in 1..MaxRets :
         \E s \in [1..n -> Returns], m \in [1..n -> Returns], rf \in Rates :
            call' = [fn |-> "calculate_alpha", a |-> s, b |-> m,
                     rf |-> rf, result |-> calculate_alpha(s, m, rf)]
    /\ Frame

CallWinRate ==
    /\ Idle
    /\ \E r \in SeqsUpTo(Returns, MaxRets) \cup {<<>>} :
         call' = [fn |-> "calculate_win_rate", a |-> r, b |-> <<>>,
                  rf |-> NaN, result |-> calculate_win_rate(r)]
    /\ Frame

CallProfitFactor ==
    /\ Idle
    /\ \E r \in SeqsUpTo(Returns, MaxRets) \cup {<<>>} :
         call' = [fn |-> "calculate_profit_factor", a |-> r, b |-> <<>>,
                  rf |-> NaN, result |-> calculate_profit_factor(r)]
    /\ Frame

\* The metrics step of backtest_strategy on two series of any lengths.
CallReport ==
    /\ Idle
    /\ \E s \in SeqsUpTo(Returns, MaxRets), m \in SeqsUpTo(Returns, MaxRets) :
         call' = [fn |-> "report", a |-> s, b |-> m,
                  rf |-> DefaultRiskFreeRate, result |-> ReportBetaAlpha(s, m)]
    /\ Frame

NextMetrics ==
    \/ CallSharpeRatio \/ CallMaxDrawdown \/ CallBeta \/ CallAlpha
    \/ CallWinRate \/ CallProfitFactor \/ CallReport

SpecMetrics == InitMetrics /\ [][NextMetrics]_vars

\* -------------------------------------------------------------- strategies
\* How the fast line of an indicator stands to its slow line on one bar;
\* "nan" when either is NaN, so that every comparison on the bar is false.
Rel == {"above", "equal", "below", "nan"}

\* A buy condition that looks at the current bar only.
CrossUp_CurrentOnly(cur, prev) == cur = "above"

\* current fast > current slow and previous fast <= previous slow
CrossUp(cur, prev) == cur = "above" /\ prev \in {"below", "equal"}

\* current fast < current slow and previous fast >= previous slow
CrossDown(cur, prev) == cur = "below" /\ prev \in {"above", "equal"}

\* What an indicator call gives for a window: None, a frame whose last row
\* has a NaN, or a frame with a value on the last row.
Outcomes == {"none", "nan", "ok"}

\* The result of a call of a strategy: it raised, or it returned a decision.
Raised == [raised |-> TRUE, decision |-> NoDecision]
Returned(d) == [raised |-> FALSE, decision |-> d]

\* Default parameters of the strategy classes.
SMA_trade_quantity == 300
SMA_short_window == 5
SMA_long_window == 20
MACD_trade_quantity == 100
MACD_slow == 26
MACD_signal == 9
KDJ_trade_quantity == 100
KDJ_k_period == 14
KDJ_d_period == 3
KDJ_smooth_k == 3
EnhancedMACD_trade_quantity == 100
EnhancedMACD_sma_period == 50
Adaptive_trade_quantity == 100
Adaptive_regime_period == 50
swing_trade_quantity == 100

\* SMAStrategy.generate_signal on a window of n bars whose last close is
\* price; cur and prev are SMA_short against SMA_long on the last two rows.
SMA_generate_signal(long_window, trade_quantity, n, cur, prev, price, pos, c) ==
    IF n = 0 THEN Raised
    ELSE IF n < long_window THEN Returned(MarketDecision(HOLD, price, 0))
    ELSE IF n < 2 THEN Raised
    ELSE LET can_buy == c >= price * trade_quantity
         IN  IF CrossUp(cur, prev) /\ can_buy
             THEN Returned(MarketDecision(BUY, price, trade_quantity))
             ELSE IF CrossDown(cur, prev) /\ pos >= trade_quantity
             THEN Returned(MarketDecision(SELL, price, trade_quantity))
             ELSE Returned(MarketDecision(HOLD, price, 0))

\* The rule MACDStrategy and KDJStrategy share once the lines are there.
CrossoverRule(trade_quantity, cur, prev, price, pos, c) ==
    LET can_buy == c >= price * trade_quantity
    IN  IF CrossUp(cur, prev)
        THEN IF can_buy
             THEN MarketDecision(BUY, price, trade_quantity)
             ELSE MarketDecision(HOLD, price, 0)
        ELSE IF CrossDown(cur, prev)
        THEN IF pos >= trade_quantity
             THEN MarketDecision(SELL, price, trade_quantity)
             ELSE MarketDecision(HOLD, price, 0)
        ELSE MarketDecision(HOLD, price, 0)

\* MACDStrategy.generate_signal (strategy/macd.py); ind is what ta.macd gave.
MACD_generate_signal(n, ind, cur, prev, price, pos, c) ==
    IF n = 0 THEN Raised
    ELSE IF n < 2 THEN Returned(MarketDecision(HOLD, price, 0))
    ELSE IF ind # "ok" THEN Raised
    ELSE Returned(CrossoverRule(MACD_trade_quantity, cur, prev, price, pos, c))

\* KDJStrategy.generate_signal (kdj.py); ind is what ta.stoch gave.
KDJ_generate_signal(n, ind, cur, prev, price, pos, c) ==
    IF n = 0 THEN Raised
    ELSE IF n < 2 THEN Returned(MarketDecision(HOLD, price, 0))
    ELSE IF ind # "ok" THEN Raised
    ELSE Returned(CrossoverRule(KDJ_trade_quantity, cur, prev, price, pos, c))

\* EnhancedMACDStrategy.generate_signal; buy_ok says RSI < overbought or
\* price > SMA, sell_ok says RSI > oversold or price < SMA.
EnhancedMACD_generate_signal(n, ind, cur, prev, buy_ok, sell_ok, price, pos, c) ==
    IF n = 0 THEN Raised
    ELSE IF n < EnhancedMACD_sma_period
    THEN Returned(MarketDecision(HOLD, price, 0))
    ELSE IF ind # "ok" THEN Raised
    ELSE LET can_buy == c >= price * EnhancedMACD_trade_quantity
         IN  IF CrossUp(cur, prev)
             THEN IF buy_ok /\ can_buy
                  THEN Returned(MarketDecision(BUY, price, EnhancedMACD_trade_quantity))
                  ELSE Returned(MarketDecision(HOLD, price, 0))
             ELSE IF CrossDown(cur, prev) /\ sell_ok
             THEN IF pos >= EnhancedMACD_trade_quantity
                  THEN Returned(MarketDecision(SELL, price, EnhancedMACD_trade_quantity))
                  ELSE Returned(MarketDecision(HOLD, price, 0))
             ELSE Returned(MarketDecision(HOLD, price, 0))

\* QuantitativeAdaptiveStrategy.generate_signal; buys and sells count the
\* true entries of the five buy_signals and the five sell_signals.
Adaptive_generate_signal(n, buys, sells, price, pos, c) ==
    IF n = 0 THEN Raised
    ELSE IF n < Adaptive_regime_period
    THEN Returned(MarketDecision(HOLD, price, 0))
    ELSE LET can_buy == c >= price * Adaptive_trade_quantity
         IN  IF buys * 10 >= 6 * 5 /\ can_buy
             THEN Returned(MarketDecision(BUY, price, Adaptive_trade_quantity))
             ELSE IF sells * 10 >= 6 * 5 /\ pos >= Adaptive_trade_quantity
             THEN Returned(MarketDecision(SELL, price, Adaptive_trade_quantity))
             ELSE Returned(MarketDecision(HOLD, price, 0))

\* BuyAndHoldStrategy.generate_signal from the window on: no bar up to the
\* date raises, otherwise the first-trade rule decides.
BuyAndHold_call(n, ft, price, c) ==
    IF n = 0 THEN Raised
    ELSE Returned(BuyAndHold_generate_signal(ft, c, price).decision)

\* MACDStrategy.swing_trade (macd.py): no None or NaN test on the lines, and
\* the fixed quantity goes with every action.
MACD_swing_trade(n, ind, cur, prev, price) ==
    IF n < 2 \/ ind = "none" THEN Raised
    ELSE IF CrossUp(cur, prev)
    THEN Returned(MarketDecision(BUY, price, swing_trade_quantity))
    ELSE IF CrossDown(cur, prev)
    THEN Returned(MarketDecision(SELL, price, swing_trade_quantity))
    ELSE Returned(MarketDecision(HOLD, price, swing_trade_quantity))

\* The fewest bars for which each indicator has a value on the last row.
MinBars(fn) ==
    CASE fn = "SMAStrategy" -> SMA_long_window
      [] fn = "MACDStrategy" -> MACD_slow + MACD_signal - 1
      [] fn = "KDJStrategy" -> KDJ_k_period + KDJ_smooth_k + KDJ_d_period - 2
      [] fn = "EnhancedMACDStrategy" -> EnhancedMACD_sma_period
      [] fn = "QuantitativeAdaptiveStrategy" -> Adaptive_regime_period
      [] fn = "BuyAndHoldStrategy" -> 1
      [] fn = "MACDStrategy.swing_trade" -> MACD_slow + MACD_signal - 1

\* What the indicator library can give for n bars, and the relations the
\* last two rows can then show: no value before the warm-up is over.
OutcomesFor(fn, n) == IF n < MinBars(fn) THEN {"none", "nan"} ELSE Outcomes
CurFor(fn, n, ind) == IF n < MinBars(fn) \/ ind # "ok" THEN {"nan"} ELSE Rel \ {"nan"}
PrevFor(fn, n, ind) == IF n - 1 < MinBars(fn) \/ ind = "none" THEN {"nan"} ELSE Rel

\* The close a call sees and the cash and position its caller holds.
ClosePrice == 100
Cashes == {5000, 100000}
Positions == {0, 300}

\* The inputs of one call of a strategy on a window of up to MaxWindow bars.
Inputs(fn) ==
    UNION {UNION {[n : {n}, ind : {ind}, cur : CurFor(fn, n, ind),
                   prev : PrevFor(fn, n, ind), ok : BOOLEAN,
                   cash : Cashes, position : Positions]
                  : ind \in OutcomesFor(fn, n)}
           : n \in 0..MaxWindow}

StrategyCall(fn, i, r) ==
    call' = [fn |-> fn, a |-> i, b |-> <<>>, rf |-> NaN, result |-> r]

InitSignals ==
    /\ pc = "signals"
    /\ strategy = "none"
    /\ first_trade = TRUE
    /\ trading_days = <<>>
    /\ idx = 1
    /\ cash = initial_cash
    /\ position = 0
    /\ portfolio_value = initial_cash
    /\ portfolio_values = <<>>
    /\ stock_prices = <<>>
    /\ dates = <<>>
    /\ daily_returns = <<>>
    /\ market_returns = <<>>
    /\ previous_value = initial_cash
    /\ previous_market_price = <<>>
    /\ decision = NoDecision
    /\ errors = <<>>
    /\ call = NoCall

Ready == pc = "signals" /\ call = NoCall

CallSMA ==
    /\ Ready
    /\ \E i \in Inputs("SMAStrategy") :
         /\ i.ind = "ok" \/ i.n < SMA_long_window
         /\ StrategyCall("SMAStrategy", i,
               SMA_generate_signal(SMA_long_window, SMA_trade_quantity, i.n,
                                   i.cur, i.prev, ClosePrice, i.position, i.cash))
    /\ Frame

CallMACD ==
    /\ Ready
    /\ \E i \in Inputs("MACDStrategy") :
         StrategyCall("MACDStrategy", i,
             MACD_generate_signal(i.n, i.ind, i.cur, i.prev, ClosePrice,
                                  i.position, i.cash))
    /\ Frame

CallKDJ ==
    /\ Ready
    /\ \E i \in Inputs("KDJStrategy") :
         StrategyCall("KDJStrategy", i,
             KDJ_generate_signal(i.n, i.ind, i.cur, i.prev, ClosePrice,
                                 i.position, i.cash))
    /\ Frame

CallEnhancedMACD ==
    /\ Ready
    /\ \E i \in Inputs("EnhancedMACDStrategy") :
         StrategyCall("EnhancedMACDStrategy", i,
             EnhancedMACD_generate_signal(i.n, i.ind, i.cur, i.prev, i.ok, i.ok,
                                          ClosePrice, i.position, i.cash))
    /\ Frame

CallAdaptive ==
    /\ Ready
    /\ \E i \in Inputs("QuantitativeAdaptiveStrategy") :
         StrategyCall("QuantitativeAdaptiveStrategy", i,
             Adaptive_generate_signal(i.n,
                 IF i.cur = "below" /\ i.ok THEN 3 ELSE 2,
                 IF i.cur = "above" /\ i.ok THEN 3 ELSE 2,
                 ClosePrice, i.position, i.cash))
    /\ Frame

CallBuyAndHold ==
    /\ Ready
    /\ \E i \in Inputs("BuyAndHoldStrategy") :
         StrategyCall("BuyAndHoldStrategy", i,
             BuyAndHold_call(i.n, i.ok, ClosePrice, i.cash))
    /\ Frame

CallSwingTrade ==
    /\ Ready
    /\ \E i \in Inputs("MACDStrategy.swing_trade") :
         StrategyCall("MACDStrategy.swing_trade", i,
             MACD_swing_trade(i.n, i.ind, i.cur, i.prev, ClosePrice))
    /\ Frame

NextSignals ==
    \/ CallSMA \/ CallMACD \/ CallKDJ \/ CallEnhancedMACD \/ CallAdaptive
    \/ CallBuyAndHold \/ CallSwingTrade

SpecSignals == InitSignals /\ [][NextSignals]_vars

\* ------------------------------- successive calls of a crossover strategy
\* The inputs of the next call of fn when each call sees the bars of the
\* call before and at most one bar more: the window keeps its length or
\* grows by one, and the previous row is the row the call before had as
\* its current one, unless the warm-up of the indicator covers it.
NextInputs(fn) ==
    IF call = NoCall THEN Inputs(fn)
    ELSE {i \in Inputs(fn) :
            /\ i.n \in {call.a.n, call.a.n + 1}
            /\ i.prev = IF i.n - 1 < MinBars(fn) \/ i.ind = "none"
                        THEN "nan" ELSE call.a.cur}

InitCrossover ==
    /\ pc = "crossover"
    /\ strategy = "none"
    /\ first_trade = TRUE
    /\ trading_days = <<>>
    /\ idx = 1
    /\ cash = initial_cash
    /\ position = 0
    /\ portfolio_value = initial_cash
    /\ portfolio_values = <<>>
    /\ stock_prices = <<>>
    /\ dates = <<>>
    /\ daily_returns = <<>>
    /\ market_returns = <<>>
    /\ previous_value = initial_cash
    /\ previous_market_price = <<>>
    /\ decision = NoDecision
    /\ errors = <<>>
    /\ call = NoCall

\* The next period's call of MACDStrategy.generate_signal.
CallNextMACD ==
    /\ pc = "crossover"
    /\ call = NoCall \/ call.fn = "MACDStrategy"
    /\ \E i \in NextInputs("MACDStrategy") :
         StrategyCall("MACDStrategy", i,
             MACD_generate_signal(i.n, i.ind, i.cur, i.prev, ClosePrice,
                                  i.position, i.cash))
    /\ Frame

\* The next period's call of KDJStrategy.generate_signal.
CallNextKDJ ==
    /\ pc = "crossover"
    /\ call = NoCall \/ call.fn = "KDJStrategy"
    /\ \E i \in NextInputs("KDJStrategy") :
         StrategyCall("KDJStrategy", i,
             KDJ_generate_signal(i.n, i.ind, i.cur, i.prev, ClosePrice,
                                 i.position, i.cash))
    /\ Frame

NextCrossover == CallNextMACD \/ CallNextKDJ

SpecCrossover == InitCrossover /\ [][NextCrossover]_vars

\* ------------------------------------------------- a run with SMAStrategy
\* SMAStrategy objects with short_window < long_window, small enough for the
\* lines to cross within a run.
SMAStrategies ==
    {[name |-> "SMAStrategy", short_window |-> 1, long_window |-> 2,
      trade_quantity |-> SMA_trade_quantity],
     [name |-> "SMAStrategy", short_window |-> 2, long_window |-> 3,
      trade_quantity |-> SMA_trade_quantity]}

\* Closes the data provider reports in such a run.
SMAPrices == {100, 110, 120, 130}

RECURSIVE SumLast(_, _, _)
\* The sum of the w closes ending at row k.
SumLast(closes, k, w) ==
    IF w = 0 THEN 0 ELSE closes[k] + SumLast(closes, k - 1, w - 1)

\* ta.sma on row k: the mean of the last `length` closes, NaN before that
\* many rows exist.  The relation of SMA_short to SMA_long on row k.
SMARel(closes, k, short_window, long_window) ==
    IF k < short_window \/ k < long_window THEN "nan"
    ELSE LET a == SumLast(closes, k, short_window) * long_window
             b == SumLast(closes, k, long_window) * short_window
         IN  IF a > b THEN "above" ELSE IF a < b THEN "below" ELSE "equal"

\* An SMAStrategy.generate_signal that does not look at the previous row.
SMAStrategy_generate_signal_NoPrevious(st, closes, pos, c) ==
    LET n == Len(closes)
        cur == SMARel(closes, n, st.short_window, st.long_window)
    IN  SMA_generate_signal(st.long_window, st.trade_quantity, n, cur,
                            IF cur = "above" THEN "below"
                            ELSE IF cur = "below" THEN "above" ELSE cur,
                            closes[n], pos, c)

\* SMAStrategy.generate_signal on the window of closes up to the date.
SMAStrategy_generate_signal(st, closes, pos, c) ==
    LET n == Len(closes)
    IN  SMA_generate_signal(st.long_window, st.trade_quantity, n,
            SMARel(closes, n, st.short_window, st.long_window),
            SMARel(closes, n - 1, st.short_window, st.long_window),
            closes[n], pos, c)

InitSMA ==
    /\ pc = "loop"
    /\ strategy \in SMAStrategies
    /\ first_trade = TRUE
    /\ trading_days = SelectSeq([i \in 1..SMADays |-> i - 1],
                                LAMBDA d : weekday(d) < 5)
    /\ idx = 1
    /\ cash = initial_cash
    /\ position = 0
    /\ portfolio_value = initial_cash
    /\ portfolio_values = <<>>
    /\ stock_prices = <<>>
    /\ dates = <<>>
    /\ daily_returns = <<>>
    /\ market_returns = <<>>
    /\ previous_value = initial_cash
    /\ previous_market_price = <<>>
    /\ decision = NoDecision
    /\ errors = <<>>
    /\ call = NoCall

\* One period with SMAStrategy: the provider's window is the closes of the
\* earlier periods and the close of the day.
PeriodSMA ==
    /\ InLoop
    /\ strategy \in SMAStrategies
    /\ \E close \in SMAPrices :
         LET r == SMAStrategy_generate_signal(strategy,
                      Append(stock_prices, close), position, cash)
         IN  IF r.raised
             THEN /\ errors' = Append(errors, trading_days[idx])
                  /\ idx' = idx + 1
                  /\ UNCHANGED <<pc, strategy, trading_days, cash, position,
                                 portfolio_value, portfolio_values,
                                 stock_prices, dates, daily_returns,
                                 market_returns, previous_value,
                                 previous_market_price, decision, call>>
             ELSE Process(r.decision)
    /\ UNCHANGED first_trade

NextSMA == PeriodSMA \/ Finish

SpecSMA == InitSMA /\ [][NextSMA]_vars

\* ======================================================== properties
Last(s) == s[Len(s)]

\* A step of the loop in which generate_signal returned a decision.
Processed == idx' = idx + 1 /\ errors' = errors

\* A step of the loop in which generate_signal raised.
Skipped == errors' # errors

\* C1: after every processed period cash >= 0 and position >= 0, whatever
\* action, price and quantity the strategy returned.
C1_PortfolioInvariant == cash >= 0 /\ position >= 0

\* C1 witness: the first period asked for a BUY that the cash does not cover
\* and the engine left the portfolio alone.
C1_Witness ==
    /\ strategy = "any"
    /\ Len(dates) = 1
    /\ decision.action = BUY
    /\ decision.price * decision.quantity > initial_cash
    /\ cash = initial_cash
    /\ position = 0

\* C2: a BUY moves price*quantity from cash into quantity shares exactly when
\* cash >= price*quantity, a SELL moves quantity shares into price*quantity of
\* cash exactly when position >= quantity, and every other decision leaves
\* cash and position unchanged.
C2_ApplyDecision ==
    [][Processed =>
         LET d == decision'
             cost == d.price * d.quantity
         IN  /\ (cash' # cash \/ position' # position) =>
                   \/ /\ d.action = BUY
                      /\ cash >= cost
                      /\ cash' = cash - cost
                      /\ position' = position + d.quantity
                   \/ /\ d.action = SELL
                      /\ position >= d.quantity
                      /\ cash' = cash + cost
                      /\ position' = position - d.quantity
             /\ (d.action = BUY /\ cash >= cost) =>
                   cash' = cash - cost /\ position' = position + d.quantity
             /\ (d.action = SELL /\ position >= d.quantity) =>
                   cash' = cash + cost /\ position' = position - d.quantity
             /\ d.action = HOLD => cash' = cash /\ position' = position
    ]_vars

\* C2 witness: a SELL for more shares than are held was returned while shares
\* were held, and the shares are still there.
C2_Witness ==
    /\ strategy = "any"
    /\ Len(dates) = 2
    /\ decision.action = SELL
    /\ decision.quantity > position
    /\ position > 0

\* C3: a period whose generate_signal raises appends nothing to dates,
\* portfolio_values, stock_prices or the return series, leaves cash and
\* position unchanged, and the loop goes on to the next trading day.
C3_SkipOnRaise ==
    [][Skipped =>
         /\ UNCHANGED <<dates, portfolio_values, stock_prices,
                        daily_returns, market_returns, cash, position>>
         /\ idx' = idx + 1
         /\ pc' = "loop"
    ]_vars

\* C3 witness: a period was skipped while shares were held and a later
\* period was processed.
C3_Witness ==
    /\ errors # <<>>
    /\ Len(dates) >= 2
    /\ position > 0
    /\ \E i \in 1..(Len(dates) - 1) :
         dates[i] < errors[1] /\ errors[1] < dates[i + 1]

\* C4: every processed period appends exactly one (date, valuation, price)
\* triple, the valuation being cash + position * decision.price on the
\* portfolio after the decision, and the three series have the same length.
C4_OneTriplePerPeriod ==
    /\ [](Len(dates) = Len(portfolio_values) /\ Len(dates) = Len(stock_prices))
    /\ [][Processed =>
            /\ dates' = Append(dates, trading_days[idx])
            /\ portfolio_values' =
                 Append(portfolio_values, cash' + position' * decision'.price)
            /\ stock_prices' = Append(stock_prices, decision'.price)
       ]_vars

\* C4 witness: two periods were recorded, the second with shares held at a
\* price other than the one they were bought at.
C4_Witness ==
    /\ Len(dates) = 2
    /\ position > 0
    /\ stock_prices[1] # stock_prices[2]
    /\ portfolio_values[2] # portfolio_values[1]

\* C5: the two return series have equal length and entry i of each is the
\* relative change from entry i to entry i+1 of the recorded values and
\* prices, also when skipped periods lie between the two.
C5_ReturnsAligned ==
    /\ Len(daily_returns) = Len(market_returns)
    /\ Len(daily_returns) < Len(portfolio_values) \/ daily_returns = <<>>
    /\ \A i \in 1..Len(daily_returns) :
         /\ daily_returns[i] =
              Rat(portfolio_values[i + 1] - portfolio_values[i],
                  portfolio_values[i])
         /\ market_returns[i] =
              Rat(stock_prices[i + 1] - stock_prices[i], stock_prices[i])

\* C5 witness: a return was recorded across a skipped period and the
\* valuation changed over it.
C5_Witness ==
    /\ errors # <<>>
    /\ Len(daily_returns) >= 1
    /\ dates[1] < errors[1] /\ errors[1] < dates[2]
    /\ daily_returns[1] # RInt(0)
    /\ market_returns[1] # daily_returns[1]

\* The share count a buy-and-hold run ends up with when its first period
\* reports price p.
FirstBuy(p) == initial_cash \div p

\* C6 as stated: with every period succeeding, a buy-and-hold run is worth
\* initial_cash on the first period and floor(initial_cash / price_0) * price_t
\* on every later period t.
C6_Original ==
    (strategy = "buy_and_hold" /\ errors = <<>>) =>
        \A t \in 1..Len(portfolio_values) :
            portfolio_values[t] =
                IF t = 1 THEN initial_cash
                ELSE FirstBuy(stock_prices[1]) * stock_prices[t]

\* C6 amended: with every period succeeding, a buy-and-hold run is worth
\* initial_cash on the first period and, when the first price is below
\* initial_cash, floor(initial_cash / price_0) * price_t plus the cash the
\* first BUY left over on every later period t.
C6_BuyAndHoldValue ==
    (strategy = "buy_and_hold" /\ errors = <<>>) =>
        \A t \in 1..Len(portfolio_values) :
            /\ t = 1 => portfolio_values[t] = initial_cash
            /\ (t > 1 /\ stock_prices[1] < initial_cash) =>
                 portfolio_values[t] =
                     FirstBuy(stock_prices[1]) * stock_prices[t]
                     + (initial_cash - FirstBuy(stock_prices[1]) * stock_prices[1])

\* C6 witness: a buy-and-hold run bought on the first period with cash left
\* over and was valued at another price on the next.
C6_Witness ==
    /\ strategy = "buy_and_hold"
    /\ errors = <<>>
    /\ Len(portfolio_values) >= 2
    /\ stock_prices[1] < initial_cash
    /\ stock_prices[2] # stock_prices[1]
    /\ cash > 0
    /\ position = FirstBuy(stock_prices[1])

\* The running maximum of values[1..i] and the first index at which it was
\* reached (indices from 1).
RECURSIVE RunningPeak(_, _)
RunningPeak(values, i) ==
    IF i = 1 THEN values[1]
    ELSE IF values[i] > RunningPeak(values, i - 1) THEN values[i]
    ELSE RunningPeak(values, i - 1)

PeakSetAt(values, i) ==
    CHOOSE j \in 1..i :
        /\ values[j] = RunningPeak(values, i)
        /\ \A k \in 1..(j - 1) : values[k] < values[j]

DrawdownAt(values, i) ==
    Rat(RunningPeak(values, i) - values[i], RunningPeak(values, i))

\* C7: for a non-empty series of positive values calculate_max_drawdown
\* returns the largest (peak_i - value_i) / peak_i over the running peak,
\* with the distance from an index where that drawdown is reached back to the
\* index that set its running peak; [100, 120, 90, 95, 130] gives 1/4 and 1.
C7_MaxDrawdown ==
    call.fn = "calculate_max_drawdown" =>
        LET v == call.a
            N == Len(v)
        IN  /\ \A i \in 1..N : ~RLess(call.result[1], DrawdownAt(v, i))
            /\ \E i \in 1..N :
                 /\ DrawdownAt(v, i) = call.result[1]
                 /\ call.result[2] = i - PeakSetAt(v, i)
            /\ v = <<100, 120, 90, 95, 130>> => call.result = <<Rat(1, 4), 1>>

\* C7 witness: the series [100, 120, 90, 95, 130] was measured.
C7_Witness ==
    /\ call.fn = "calculate_max_drawdown"
    /\ call.a = <<100, 120, 90, 95, 130>>
    /\ call.result = <<Rat(1, 4), 1>>

IsConstant(xs) == \A i \in 1..Len(xs) : xs[i] = xs[1]

\* C8: for a constant return series of one entry or more
\* calculate_sharpe_ratio returns exactly 0, never NaN or an infinity.
C8_SharpeConstantIsZero ==
    (call.fn = "calculate_sharpe_ratio" /\ Len(call.a) >= 1 /\ IsConstant(call.a))
        => call.result = SharpeZero

\* Covariance and variance of the same (population) definition.
PopCov(x, y) ==
    RDiv(RSum([i \in 1..Len(x) |->
                 RMul(RSub(x[i], Mean(x)), RSub(y[i], Mean(y)))]),
         RInt(Len(x)))

\* C9: calculate_beta returns covariance(strategy, market) / variance(market)
\* with both taken under one definition when the market variance is not 0,
\* and exactly 1 when it is 0.
C9_Beta ==
    call.fn = "calculate_beta" =>
        IF PopCov(call.b, call.b) # RInt(0)
        THEN call.result = RDiv(PopCov(call.a, call.b), PopCov(call.b, call.b))
        ELSE call.result = RInt(1)

\* C10: calculate_alpha returns strategy_annual - (rf_annual + beta *
\* (market_annual - rf_annual)), the annual figures being 252 times the mean
\* of each series, beta the result of calculate_beta on the two series and
\* rf_annual the annual rate passed in.
C10_Alpha ==
    call.fn = "calculate_alpha" =>
        LET strategy_annual == RMul(RInt(252), Mean(call.a))
            market_annual == RMul(RInt(252), Mean(call.b))
            beta == calculate_beta(call.a, call.b)
        IN  call.result =
              RSub(strategy_annual,
                   RAdd(call.rf, RMul(beta, RSub(market_annual, call.rf))))

\* C10 witness: alpha was computed at the default rate of 2% for two series
\* with a market that varies and a beta other than 1.
C10_Witness ==
    /\ call.fn = "calculate_alpha"
    /\ call.rf = Rat(1, 50)
    /\ Len(call.a) >= 2
    /\ Var(call.b) # RInt(0)
    /\ calculate_beta(call.a, call.b) # RInt(1)
    /\ call.result # RInt(0)
    /\ ~IsNaN(call.result)

\* C11: calculate_profit_factor returns the sum of the positive returns over
\* the absolute sum of the negative returns when there is a negative return,
\* and +infinity when there is none (empty and all-zero series included).
C11_ProfitFactor ==
    call.fn = "calculate_profit_factor" =>
        LET r == call.a
            neg == {i \in 1..Len(r) : r[i][1] < 0}
            pos == SelectSeq(r, LAMBDA x : x[1] > 0)
            lost == RSum(SelectSeq(r, LAMBDA x : x[1] < 0))
        IN  IF neg # {}
            THEN /\ call.result # Inf
                 /\ RMul(call.result, RNeg(lost)) = RSum(pos)
            ELSE call.result = Inf

\* C11 witness: the factor of a series with a gain, a loss and a zero return
\* was computed.
C11_Witness ==
    /\ call.fn = "calculate_profit_factor"
    /\ \E i, j, k \in 1..Len(call.a) :
         call.a[i][1] > 0 /\ call.a[j][1] < 0 /\ call.a[k][1] = 0
    /\ call.result = RInt(2)

\* C12: calculate_win_rate returns the number of entries strictly above 0
\* over the number of entries, 0 for the empty series, and the result lies
\* in [0, 1].
C12_WinRate ==
    call.fn = "calculate_win_rate" =>
        LET r == call.a
            wins == Cardinality({i \in 1..Len(r) : RLess(RInt(0), r[i])})
        IN  /\ r = <<>> => call.result = RInt(0)
            /\ r # <<>> => call.result[1] * Len(r) = wins * call.result[2]
            /\ ~RLess(call.result, RInt(0))
            /\ ~RLess(RInt(1), call.result)

\* C12 witness: the rate of a series with one gain, one zero return and one
\* loss is a third.
C12_Witness ==
    /\ call.fn = "calculate_win_rate"
    /\ Len(call.a) = 3
    /\ \E i, j, k \in 1..3 :
         call.a[i][1] > 0 /\ call.a[j][1] < 0 /\ call.a[k][1] = 0
    /\ call.result = Rat(1, 3)

Prefix(s, n) == [i \in 1..n |-> s[i]]

\* C13: the reported beta and alpha are those of the first min(len) entries
\* of the two series, and entries appended to the longer series do not
\* change them.
C13_TruncationStable ==
    call.fn = "report" =>
        LET s == call.a
            m == call.b
            n == IF Len(s) < Len(m) THEN Len(s) ELSE Len(m)
        IN  /\ call.result[1] = calculate_beta(Prefix(s, n), Prefix(m, n))
            /\ call.result[2] =
                 calculate_alpha(Prefix(s, n), Prefix(m, n), Rat(2, 100))
            /\ \A x \in Returns :
                 /\ Len(s) >= Len(m) =>
                      ReportBetaAlpha(Append(s, x), m) = call.result
                 /\ Len(m) >= Len(s) =>
                      ReportBetaAlpha(s, Append(m, x)) = call.result

\* C13 witness: series of different lengths were reported on, the shorter
\* with a market that varies.
C13_Witness ==
    /\ call.fn = "report"
    /\ Len(call.a) = Len(call.b) + 1
    /\ Len(call.b) >= 2
    /\ Var(call.b) # RInt(0)
    /\ call.a[Len(call.a)] # call.a[1]
    /\ ~IsNaN(call.result[1])

\* The dates generate_signal was called for so far: recorded and skipped.
Asked == dates \o errors

\* C18: the strategy is asked only on Monday-to-Friday dates of the date
\* range, in strictly ascending order and at most once per date, so the dates
\* of the result series are strictly increasing.
C18_TradingDaysAscending ==
    /\ \E start \in 0..6 :
         \A i \in 1..Len(Asked) :
            /\ Asked[i] >= start /\ Asked[i] <= start + NumDays - 1
            /\ weekday(Asked[i]) < 5
    /\ Cardinality({Asked[i] : i \in 1..Len(Asked)}) = Len(Asked)
    /\ Len(Asked) = idx - 1
    /\ \A i \in 1..Len(Asked) :
         idx <= Len(trading_days) => Asked[i] < trading_days[idx]
    /\ \A i, j \in 1..Len(dates) : i < j => dates[i] < dates[j]
    /\ \A i, j \in 1..Len(errors) : i < j => errors[i] < errors[j]

\* C18 witness: a range that starts on a Sunday was run; the first date
\* asked and recorded is the Monday.
C18_Witness ==
    /\ trading_days = <<7, 8>>
    /\ dates = <<7, 8>>
    /\ pc = "done"

\* C19: once a buy-and-hold instance has returned a BUY, every later call
\* returns HOLD with quantity 0, a BUY is only returned when none was before,
\* and the position does not change after the BUY was applied.
C19_BuyOnce ==
    [][strategy = "buy_and_hold" =>
         /\ (Processed /\ (position > 0 \/ ~first_trade)) =>
               /\ decision'.action = HOLD
               /\ decision'.quantity = 0
         /\ (Processed /\ decision'.action = BUY) =>
               position = 0 /\ first_trade
         /\ position > 0 => position' = position
    ]_vars

\* C19 witness: after its BUY the instance returned HOLD at a price the
\* cash left over would have paid for again.
C19_Witness ==
    /\ strategy = "buy_and_hold"
    /\ Len(dates) >= 2
    /\ position > 0
    /\ decision.action = HOLD
    /\ decision.quantity = 0
    /\ cash > decision.price

\* C20: on a call before any BUY, whenever floor(cash / price) >= 1 the
\* buy-and-hold instance returns BUY with quantity floor(cash / price), and
\* the engine's affordability test accepts it.
C20_BuysMaximum ==
    [][(strategy = "buy_and_hold" /\ Processed /\ first_trade
          /\ cash \div decision'.price >= 1) =>
         /\ decision'.action = BUY
         /\ decision'.quantity = cash \div decision'.price
         /\ cash >= decision'.price * decision'.quantity
         /\ position' = position + decision'.quantity
    ]_vars
\* A call of a strategy has returned a decision.
Decided == pc = "signals" /\ call # NoCall /\ ~call.result.raised

\* The quantity a variant trades in.
QuantityOf(fn) ==
    CASE fn = "SMAStrategy" -> SMA_trade_quantity
      [] fn = "MACDStrategy" -> MACD_trade_quantity
      [] fn = "KDJStrategy" -> KDJ_trade_quantity
      [] fn = "EnhancedMACDStrategy" -> EnhancedMACD_trade_quantity
      [] fn = "QuantitativeAdaptiveStrategy" -> Adaptive_trade_quantity
      [] fn = "MACDStrategy.swing_trade" -> swing_trade_quantity
      [] OTHER -> 0

\* The variants that decide by the crossing of two lines.
CrossoverVariants ==
    {"SMAStrategy", "MACDStrategy", "KDJStrategy", "EnhancedMACDStrategy",
     "MACDStrategy.swing_trade"}

\* The decision is one the engine would apply for the caller's cash and
\* position.
Feasible(d, c, pos) ==
    /\ d.action = BUY => c >= d.price * d.quantity
    /\ d.action = SELL => d.quantity <= pos
    /\ d.action = HOLD => d.quantity = 0

\* C14: every decision a strategy variant returns is feasible for the cash
\* and position it was called with (BUY costs at most the cash, SELL sells
\* at most the position, HOLD has quantity 0), and a variant whose lines
\* cross upward while the cash does not cover its quantity returns HOLD
\* with quantity 0 rather than raising.
C14_DecisionsFeasible ==
    /\ Decided => Feasible(call.result.decision, call.a.cash, call.a.position)
    /\ (/\ pc = "signals" /\ call # NoCall
        /\ call.fn \in CrossoverVariants
        /\ call.a.ind = "ok" /\ CrossUp(call.a.cur, call.a.prev)
        /\ call.a.cash < ClosePrice * QuantityOf(call.fn))
       => /\ ~call.result.raised
          /\ call.result.decision.action = HOLD
          /\ call.result.decision.quantity = 0

\* C15: a variant called with a window of fewer bars than its indicator
\* needs, the empty window included, returns HOLD with quantity 0 and does
\* not raise.
C15_ShortWindowHolds ==
    (/\ pc = "signals" /\ call # NoCall
     /\ call.fn # "MACDStrategy.swing_trade"
     /\ call.a.n < MinBars(call.fn))
    => /\ ~call.result.raised
       /\ call.result.decision.action = HOLD
       /\ call.result.decision.quantity = 0
\* C17: when cash or position becomes negative, or a period computes its
\* return with a previous valuation or a previous price of exactly 0, the
\* run stops there with an error for the caller: the period is not one the
\* loop skips or records and then carries on from.
C17_ViolationStopsRun ==
    [][(\/ cash' < 0
        \/ position' < 0
        \/ /\ dates' # dates
           /\ previous_value = 0 \/ previous_market_price = <<0>>)
       => pc' = "raised"
    ]_vars
NonDecreasing(s) == \A i \in 1..(Len(s) - 1) : s[i] <= s[i + 1]
StrictlyRising(s) == \A i \in 1..(Len(s) - 1) : s[i] < s[i + 1]

\* The relation of the short SMA to the long SMA at period k of the run.
RelAt(k) ==
    SMARel(stock_prices, k, strategy.short_window, strategy.long_window)

\* The run is one of SMAStrategy and has called it at least once.
SMARun == pc \in {"loop", "done"} /\ strategy \in SMAStrategies /\ dates # <<>>

\* C16 as stated: on a monotonically rising series (each close at least
\* the one before) SMAStrategy with short_window < long_window has never
\* returned SELL, has returned at most one BUY, and a BUY comes at the first
\* period where the short SMA exceeds the long SMA.
C16_Original ==
    (SMARun /\ NonDecreasing(stock_prices)) =>
        /\ decision.action # SELL
        /\ position <= strategy.trade_quantity
        /\ decision.action = BUY =>
              \A k \in 1..(Len(stock_prices) - 1) : RelAt(k) # "above"

\* C16, amended: on a series that never falls SMAStrategy with
\* short_window < long_window never returns SELL, and every BUY comes at a
\* period where the short SMA exceeds the long SMA after being equal to it
\* on the period before; on a strictly rising series it returns no BUY at
\* all, so at most one.
C16_RisingSeries ==
    /\ (SMARun /\ NonDecreasing(stock_prices)) =>
          /\ decision.action # SELL
          /\ decision.action = BUY =>
                /\ RelAt(Len(stock_prices)) = "above"
                /\ RelAt(Len(stock_prices) - 1) = "equal"
    /\ (SMARun /\ StrictlyRising(stock_prices)) =>
          /\ decision.action = HOLD
          /\ position = 0

C16_Witness ==
    /\ pc = "done"
    /\ strategy.short_window = 1
    /\ stock_prices = <<100, 100, 110, 120, 130>>
    /\ position = strategy.trade_quantity
    /\ decision.action = HOLD
Max(a, b) == IF a > b THEN a ELSE b

\* C21: at every iteration boundary the strategy returns and the market
\* returns each number max(0, n - 1), n being the number of entries of the
\* result series; the first recorded period adds no return and every later
\* recorded period adds exactly one of each.
C21_ReturnCounts ==
    /\ [](/\ Len(daily_returns) = Max(0, Len(portfolio_values) - 1)
          /\ Len(market_returns) = Max(0, Len(portfolio_values) - 1))
    /\ [][Processed =>
            IF dates = <<>>
            THEN UNCHANGED <<daily_returns, market_returns>>
            ELSE /\ Len(daily_returns') = Len(daily_returns) + 1
                 /\ Len(market_returns') = Len(market_returns) + 1
       ]_vars

\* C21 witness: three periods were recorded and two returns of each kind.
C21_Witness ==
    /\ Len(portfolio_values) = 3
    /\ Len(daily_returns) = 2
    /\ Len(market_returns) = 2
\* C22: whatever periods fail, all of them included, the loop ends after
\* one visit of each trading day and the run goes on to compute the metrics
\* and completes, with as many result entries as trading days less skipped
\* periods.
C22_RunCompletes ==
    /\ [](pc # "loop" =>
            /\ idx = Len(trading_days) + 1
            /\ Len(dates) = Len(trading_days) - Len(errors))
    /\ <>(pc = "done")
\* The state a period of the loop body writes.
PeriodState ==
    <<cash, position, dates, portfolio_values, stock_prices, daily_returns,
      market_returns, previous_value, previous_market_price>>

\* A step in which the loop body ran to its end for the period.
AllUpdated ==
    /\ Len(dates') = Len(dates) + 1
    /\ Len(portfolio_values') = Len(portfolio_values) + 1
    /\ Len(stock_prices') = Len(stock_prices) + 1
    /\ cash' + position' * decision'.price = Last(portfolio_values')
    /\ previous_value' = Last(portfolio_values')
    /\ previous_market_price' = <<Last(stock_prices')>>
    /\ previous_market_price # <<>> =>
          /\ Len(daily_returns') = Len(daily_returns) + 1
          /\ Len(market_returns') = Len(market_returns) + 1

\* C23: a period is all-or-nothing wherever the loop body raises: either
\* cash, position, the three result series, the return series,
\* previous_value and previous_market_price are all updated for the period,
\* or none of them changes.
C23_AllOrNothing ==
    [][idx' = idx + 1 => (AllUpdated \/ UNCHANGED PeriodState)]_vars
\* C24: the valuation appended for a period equals the cash and position
\* held before the decision, valued at the decision price, whether the
\* decision was an applied BUY, an applied SELL, a HOLD or a rejected trade;
\* the first entry of the result series is initial_cash.
C24_TradeKeepsValuation ==
    /\ [](portfolio_values # <<>> => portfolio_values[1] = initial_cash)
    /\ [][Processed =>
            Last(portfolio_values') = cash + position * decision'.price
       ]_vars

\* C24 witness: shares bought on the first period were sold on the second
\* at another price.
C24_Witness ==
    /\ Len(dates) = 2
    /\ decision.action = SELL
    /\ decision.quantity > 0
    /\ position = 0
    /\ cash # initial_cash
    /\ portfolio_values[2] = cash
\* The first index at which the series is dd below its running peak.
FirstWithDrawdown(values, dd) ==
    CHOOSE i \in 1..Len(values) :
        /\ DrawdownAt(values, i) = dd
        /\ \A k \in 1..(i - 1) : DrawdownAt(values, k) # dd

\* C25: calculate_max_drawdown breaks ties towards the earliest index: the
\* duration returned is the one at the first index where the maximal
\* drawdown is reached, counted from the first index at which the running
\* peak of that moment was reached (a later value equal to the peak does
\* not move it).
C25_EarliestTie ==
    call.fn = "calculate_max_drawdown" =>
        LET v == call.a
            first == FirstWithDrawdown(v, call.result[1])
        IN  /\ \E i \in 1..Len(v) : DrawdownAt(v, i) = call.result[1]
            /\ call.result[2] = first - PeakSetAt(v, first)

\* C25 witness: the peak 120 comes twice and the drawdown of 1/4 twice; the
\* duration is the one of the first fall, from the first peak.
C25_Witness ==
    /\ call.fn = "calculate_max_drawdown"
    /\ call.a = <<120, 90, 120, 90>>
    /\ call.result = <<Rat(1, 4), 1>>
\* C26: for a strategy return series identical to the market return series
\* and of non-zero variance calculate_beta returns exactly 1 and
\* calculate_alpha returns exactly 0.
C26_IdenticalSeries ==
    (call.fn \in {"calculate_beta", "calculate_alpha"}
       /\ call.a = call.b /\ ~IsConstant(call.a))
    => /\ call.fn = "calculate_beta" => call.result = RInt(1)
       /\ call.fn = "calculate_alpha" => call.result = RInt(0)
\* The action a call returned, "RAISED" when it raised.
ActionOf(c) == IF c.result.raised THEN "RAISED" ELSE c.result.decision.action

\* C27: MACDStrategy and KDJStrategy return BUY only with the fast line
\* above the slow line on the current bar and at or below it on the
\* previous bar, SELL only in the mirrored case, and never meet both
\* conditions on one bar; over calls that see consecutive bars they return
\* neither BUY in two consecutive periods nor SELL in two consecutive
\* periods.
C27_NoRepeatedCross ==
    /\ [](call # NoCall =>
            /\ ActionOf(call) = BUY =>
                  call.a.cur = "above" /\ call.a.prev \in {"below", "equal"}
            /\ ActionOf(call) = SELL =>
                  call.a.cur = "below" /\ call.a.prev \in {"above", "equal"}
            /\ ~(CrossUp(call.a.cur, call.a.prev)
                   /\ CrossDown(call.a.cur, call.a.prev)))
    /\ [][(call # NoCall /\ call' # call) =>
            /\ ~(ActionOf(call) = BUY /\ ActionOf(call') = BUY)
            /\ ~(ActionOf(call) = SELL /\ ActionOf(call') = SELL)
       ]_vars

\* C27 witness: the period after a BUY the fast line is still above the
\* slow line, the cash still covers the quantity, and the call holds.
C27_Witness ==
    /\ pc = "crossover"
    /\ call # NoCall
    /\ call.a.cur = "above"
    /\ call.a.prev = "above"
    /\ call.a.cash >= ClosePrice * MACD_trade_quantity
    /\ ActionOf(call) = HOLD

====
